---------------------------- MODULE Spec2Model ----------------------------
(***************************************************************************)
(* Model of the gLocal probing pipeline:                                   *)
(*   src/main_glocal_probing_efficient.py  (parseargs, get_batches,        *)
(*       get_callbacks, run, __main__)                                     *)
(*   src/utils/probing/from_scratch.py     (FromScratch)                   *)
(* Library calls (sklearn KFold, torch DataLoader, pytorch_lightning       *)
(* Trainer / EarlyStopping) are modelled by what the library does at the   *)
(* call site.  utils.probing.partition_triplets and                        *)
(* utils.probing.zip_batches are not among the sources; they are modelled  *)
(* from the specification text.                                            *)
(***************************************************************************)
EXTENDS Integers, Sequences, FiniteSets, TLC

VARIABLES
    \* ---- kf.split(objects): the object-level k-fold generator
    kf_pc,                \* "new" | "iter" | "exhausted" | "raised"
    n_objects,            \* number of objects
    indices,              \* the shuffled index array of KFold
    kf_folds,             \* the (train_idx, test_idx) pairs yielded so far
    \* ---- partition_triplets(triplets, train_objects)
    pt_pc,                \* "idle" | "input" | "done"
    triplets,             \* the triplet array
    train_objects,        \* the fold's train objects
    triplet_partitioning, \* {"train": [...], "val": [...]}
    \* ---- zip_batches over two DataLoaders
    zp_pc,                \* "idle" | "loaders" | "zipped" | "exhausted"
    things_loader,        \* DataLoader over the triplets
    imagenet_loader,      \* DataLoader over the auxiliary features
    zipped,               \* the paired batches
    zp_pos,               \* pairs consumed by the iteration so far
    zp_last,              \* the pair the iteration yielded last
    \* ---- passes of trainer.fit / trainer.test over a paired stream
    ps_pc,                \* "idle" | "fit" | "tested"
    ps_kind,              \* "train" (train_batches) | "val" (val_batches)
    ps_things,            \* the stream's DataLoader over triplets
    ps_imagenet,          \* the stream's DataLoader over auxiliary features
    ps_count,             \* passes made over the stream
    ps_delivered,         \* the pairs the last pass delivered
    ps_previous,          \* the pairs the pass before it delivered
    \* ---- FromScratch.break_ties(probas)
    tb_pc,                \* "idle" | "input" | "done"
    probas,               \* rows of three probabilities, in thousandths
    choices,              \* the returned choice per row
    batching,             \* accuracy_'s batching argument
    acc,                  \* what accuracy_ returned
    \* ---- FromScratch.predict_step
    pr_pc,                \* "idle" | "input" | "done"
    pr_probas,            \* the softmax rows of the batch, in thousandths
    sim_predictions,      \* index of the closest pair per row
    ooo_predictions,      \* the returned odd-one-out per row
    \* ---- FromScratch._step and the three step hooks
    st_pc,                \* "idle" | "input" | "done"
    alpha,                \* self.alpha, in units of 1/AlphaDen
    similarity_loss,      \* output of similarity_loss_fun
    classification_loss,  \* output of classification_loss_fun
    loss,                 \* the combined loss, in units of 1/AlphaDen
    logged,               \* the name the step hook logs the loss under
    batch_idx,            \* the step's batch_idx
    computed,             \* the part of the batch pair each loss was computed on
    \* ---- FromScratch.forward
    hk_pc,                \* "idle" | "ready" | "called" | "things_done" | "read" | "returned"
    hooked,               \* __init__ found self.module and registered the hook
    activations,          \* self.activations
    things_batch,         \* forward's first argument
    imagenet_batch_images, \* forward's second argument
    things_embeddings,    \* forward's local things_ebmbeddings
    imagenet_logits,      \* forward's local imagenet_logits
    calls,                \* calls of forward so far
    \* ---- Trainer.fit of a FromScratch module: configure_optimizers
    op_pc,                \* "idle" | "constructed" | "fit" | "training" | "raised"
    op_optim,             \* self.optim
    op_lr,                \* self.lr
    op_lmbda,             \* self.lmbda
    optimizer,            \* what configure_optimizers returned
    op_error,             \* "none" | "ValueError"
    \* ---- __main__ and run
    pc,                   \* position in __main__ / run
    entry,                \* "main" (command line) | "call" (run called directly)
    features_type,        \* args.features_type / run's features_type
    optim,                \* optim_cfg["optim"]
    use_bias,             \* optim_cfg["use_bias"]
    max_epochs,           \* optim_cfg["max_epochs"]  (--epochs)
    min_epochs,           \* optim_cfg["min_epochs"]  (--burnin)
    patience,             \* optim_cfg["patience"]
    run_n_objects,        \* args.n_objects / run's n_objects
    stop_latches,         \* the installed Lightning keeps trainer.should_stop set
    early_stopping,       \* the EarlyStopping callback: configuration and state
    features_backend,     \* class of imagenet_train_features / imagenet_val_features
    k,                    \* fold number of the loop (0: loop not entered)
    epoch,                \* epochs the fit has processed
    should_stop,          \* trainer.should_stop
    val_history,          \* monitored val_loss of each validation check
    phases,               \* trainer phases started so far
    val_performance,      \* what trainer.test returned: one metrics dict per
                          \* dataloader, here the names of its metrics
    cv_results,           \* dict fold key -> val_performance
    predictions,          \* the fold's predictions, one choice per triplet
    ooo_choices,          \* list of per-fold predictions; flat array on return
    transformation,       \* keys of the exported transformation
    archive,              \* keys of the arrays saved in transform.npz
    error                 \* what raised: "none" | "usage" | "features_type" |
                          \* "n_splits" | "optim" | "IndexError" |
                          \* "KeyError: test_acc" | "KeyError: test_loss" |
                          \* "KeyError: transform"

kfVars == <<kf_pc, n_objects, indices, kf_folds>>
ptVars == <<pt_pc, triplets, train_objects, triplet_partitioning>>
zpVars == <<zp_pc, things_loader, imagenet_loader, zipped, zp_pos, zp_last>>
tbVars == <<tb_pc, probas, choices, batching, acc>>
prVars == <<pr_pc, pr_probas, sim_predictions, ooo_predictions>>
stVars == <<st_pc, alpha, similarity_loss, classification_loss, loss, logged,
            batch_idx, computed>>
psVars == <<ps_pc, ps_kind, ps_things, ps_imagenet, ps_count, ps_delivered,
            ps_previous>>
hkVars == <<hk_pc, hooked, activations, things_batch, imagenet_batch_images,
            things_embeddings, imagenet_logits, calls>>
cfgVars == <<entry, features_type, optim, use_bias, max_epochs, min_epochs,
             patience, run_n_objects, stop_latches>>
fitVars == <<early_stopping, epoch, should_stop, val_history>>
opVars == <<op_pc, op_optim, op_lr, op_lmbda, optimizer, op_error>>
outVars == <<val_performance, cv_results, predictions, ooo_choices, transformation, archive>>
runVars == <<pc, cfgVars, fitVars, outVars, features_backend, k, phases, error>>
vars == <<kfVars, ptVars, zpVars, psVars, tbVars, prVars, stVars, hkVars, opVars,
          runVars>>

-----------------------------------------------------------------------------
(* Bounds of the model *)
MaxObjects == 6          \* KFold is explored for 1..MaxObjects objects
PartObjects == 5         \* partition_triplets is explored over this many objects
MaxTriplets == 1         \* rows of the triplet array
MaxItems == 12           \* items of a dataset behind a DataLoader
MaxBatchSize == 2        \* batch sizes 1..MaxBatchSize
MaxRows == 1             \* rows of a probability batch
AccRows == 3             \* rows of a batch given to accuracy_
PredictRows == 2         \* rows of a batch given to predict_step
PassItems == 2           \* items of a dataset whose passes are followed
MaxPasses == 2           \* passes of the fit over a paired stream
MaxBatchIdx == 1         \* batch_idx of a step in 0..MaxBatchIdx
MaxCalls == 3            \* calls of forward
AlphaDen == 10           \* alpha ranges over 0/AlphaDen .. AlphaDen/AlphaDen
MaxLoss == 3             \* finite loss values 0..MaxLoss
MaxEpochs == 4           \* --epochs in 1..MaxEpochs, --burnin in 0..MaxEpochs
MaxPatience == 2         \* --patience in 1..MaxPatience

(* Program constants *)
NSplits == 4             \* KFold(n_splits=4, ...)
TripletSize == 3         \* a triplet has three members
Sentinel == -1           \* the choice break_ties returns for an ambiguous row
MinDelta == 1            \* EarlyStopping(min_delta=1e-4): the unit of val_loss

\* members of a triplet, in the order _step and predict_step unbind them
Anchor == 0
Positive == 1
Negative == 2

-----------------------------------------------------------------------------
(* Generic helpers *)
Min(a, b) == IF a <= b THEN a ELSE b

Range(s) == {s[i] : i \in DOMAIN s}

RECURSIVE SortedSeq(_)
\* the ascending array of a finite set of integers (numpy boolean-mask indexing)
SortedSeq(S) ==
    IF S = {} THEN <<>>
    ELSE LET m == CHOOSE x \in S : \A y \in S : x <= y
         IN <<m>> \o SortedSeq(S \ {m})

RECURSIVE SumTo(_, _)
\* f[1] + ... + f[n]
SumTo(f, n) == IF n = 0 THEN 0 ELSE f[n] + SumTo(f, n - 1)

SeqsUpTo(S, n) == UNION {[1..m -> S] : m \in 0..n}

-----------------------------------------------------------------------------
(* sklearn.model_selection.KFold(n_splits=4, shuffle=True).split(objects)   *)

\* np.arange(n_objects)
Objects(n) == 0..(n - 1)

\* check_random_state(seed).shuffle(indices): some permutation of arange(n),
\* fixed by the seed; every permutation is the result for some seed.
ShuffledIndices(n) ==
    {[i \in 1..n |-> p[i - 1]] : p \in Permutations(Objects(n))}

\* mutant: every fold gets n // n_splits objects, the remainder is lost
fold_sizes_NoRemainder(n) == [f \in 1..NSplits |-> n \div NSplits]

\* fold_sizes = full(n_splits, n // n_splits); fold_sizes[: n % n_splits] += 1
fold_sizes(n) ==
    [f \in 1..NSplits |->
        (n \div NSplits) + (IF f <= n % NSplits THEN 1 ELSE 0)]

\* the test indices of fold f: indices[start:stop] of the shuffled array
test_index(ind, n, f) ==
    LET sizes == fold_sizes(n)
        start == SumTo(sizes, f - 1)
        stop  == start + sizes[f]
    IN {ind[i] : i \in (start + 1)..stop}

\* split(): train_index = indices[~test_mask], test_index = indices[test_mask]
KFoldSplit(ind, n, f) ==
    LET test == test_index(ind, n, f)
    IN [train_idx |-> SortedSeq(Objects(n) \ test),
        test_idx  |-> SortedSeq(test)]

KFoldIdle ==
    /\ kf_pc = "idle"
    /\ n_objects = 0
    /\ indices = <<>>
    /\ kf_folds = <<>>

KFoldInit ==
    /\ kf_pc = "new"
    /\ n_objects \in 1..MaxObjects
    /\ indices = <<>>
    /\ kf_folds = <<>>

\* first next() on kf.split(objects): the n_splits > n_samples check, then
\* the shuffle
KFoldStart ==
    /\ kf_pc = "new"
    /\ n_objects >= NSplits
    /\ \E ind \in ShuffledIndices(n_objects) : indices' = ind
    /\ kf_pc' = "iter"
    /\ UNCHANGED <<n_objects, kf_folds>>

\* "Cannot have number of splits n_splits=4 greater than the number of samples"
KFoldRaise ==
    /\ kf_pc = "new"
    /\ n_objects < NSplits
    /\ kf_pc' = "raised"
    /\ UNCHANGED <<n_objects, indices, kf_folds>>

\* the generator yields the next (train_idx, test_idx)
KFoldYield ==
    /\ kf_pc = "iter"
    /\ Len(kf_folds) < NSplits
    /\ kf_folds' = Append(kf_folds,
                          KFoldSplit(indices, n_objects, Len(kf_folds) + 1))
    /\ UNCHANGED <<kf_pc, n_objects, indices>>

\* StopIteration after n_splits folds
KFoldStop ==
    /\ kf_pc = "iter"
    /\ Len(kf_folds) = NSplits
    /\ kf_pc' = "exhausted"
    /\ UNCHANGED <<n_objects, indices, kf_folds>>

-----------------------------------------------------------------------------
(* utils.probing.partition_triplets(triplets, train_objects)                *)

\* "train" if obj in train_objects else "val", for each member
member_splits(triplet, train_objs) ==
    {IF triplet[i] \in train_objs THEN "train" ELSE "val" : i \in 1..TripletSize}

\* the rows of trips whose members all fall on `side`, in their order
RECURSIVE rows_on_side(_, _, _)
rows_on_side(trips, train_objs, side) ==
    IF trips = <<>> THEN <<>>
    ELSE LET t == Head(trips)
             rest == rows_on_side(Tail(trips), train_objs, side)
         IN IF member_splits(t, train_objs) = {side} THEN <<t>> \o rest ELSE rest

partition_triplets(trips, train_objs) ==
    [train |-> rows_on_side(trips, train_objs, "train"),
     val   |-> rows_on_side(trips, train_objs, "val")]

\* mutant of the call in run: the validation objects are passed as train_objects
fold_partitioning_Swapped(trips, n, train_idx) ==
    partition_triplets(trips, Objects(n) \ Range(train_idx))

\* run, the fold body: train_objects = objects[train_idx];
\* triplet_partitioning = partition_triplets(triplets, train_objects)
fold_partitioning(trips, n, train_idx) ==
    partition_triplets(trips, Range(train_idx))

\* the train-object arrays some fold of some shuffle gives for n objects
FoldTrainIdx(n) ==
    {KFoldSplit(ind, n, f).train_idx : ind \in ShuffledIndices(n), f \in 1..NSplits}

PartTrainIdx == FoldTrainIdx(PartObjects)

PartTriplets == [1..TripletSize -> Objects(PartObjects)]

PartitionIdle ==
    /\ pt_pc = "idle"
    /\ triplets = <<>>
    /\ train_objects = <<>>
    /\ triplet_partitioning = [train |-> <<>>, val |-> <<>>]

PartitionInit ==
    /\ pt_pc = "input"
    /\ triplets \in SeqsUpTo(PartTriplets, MaxTriplets)
    /\ train_objects \in PartTrainIdx
    /\ triplet_partitioning = [train |-> <<>>, val |-> <<>>]

Partition ==
    /\ pt_pc = "input"
    /\ triplet_partitioning' = fold_partitioning(triplets, PartObjects, train_objects)
    /\ pt_pc' = "done"
    /\ UNCHANGED <<triplets, train_objects>>

-----------------------------------------------------------------------------
(* get_batches (torch DataLoader) and utils.probing.zip_batches             *)

NoLoader == [dataset |-> "none", size |-> 0, batch_size |-> 1, shuffle |-> FALSE,
             num_workers |-> 0, drop_last |-> FALSE, pin_memory |-> FALSE]

NoBatch == [source |-> "none", index |-> 0, first |-> 0, last |-> 0]

\* DataLoader(dataset, batch_size, shuffle=train, num_workers, drop_last=False,
\*            pin_memory=train)
get_batches(dataset, size, batch_size, train, num_workers) ==
    [dataset |-> dataset, size |-> size, batch_size |-> batch_size,
     shuffle |-> train, num_workers |-> num_workers, drop_last |-> FALSE,
     pin_memory |-> train]

\* len(DataLoader): floor(size / batch_size) with drop_last, else the ceiling
LoaderLen(loader) ==
    IF loader.drop_last
    THEN loader.size \div loader.batch_size
    ELSE (loader.size + loader.batch_size - 1) \div loader.batch_size

\* the i-th batch of one pass: sampler positions first..last of the dataset
LoaderBatch(loader, i) ==
    [source |-> loader.dataset, index |-> i,
     first  |-> (i - 1) * loader.batch_size + 1,
     last   |-> Min(i * loader.batch_size, loader.size)]

\* the batches of one pass over the loader
LoaderBatches(loader) == [i \in 1..LoaderLen(loader) |-> LoaderBatch(loader, i)]

\* zip_batches(a, b): pairs in lockstep, as long as the shorter source lasts
zip_batches(batches_i, batches_j) ==
    LET bi == LoaderBatches(batches_i)
        bj == LoaderBatches(batches_j)
    IN [i \in 1..Min(Len(bi), Len(bj)) |-> <<bi[i], bj[i]>>]

\* mutant: the two sources are passed in the other order
paired_batches_Swapped(things, imagenet) == zip_batches(imagenet, things)

\* run: train_batches = zip_batches(train_batches_things, train_batches_imagenet)
\*      val_batches   = zip_batches(val_batches_things, val_batches_imagenet)
paired_batches(things, imagenet) == zip_batches(things, imagenet)

ZipIdle ==
    /\ zp_pc = "idle"
    /\ things_loader = NoLoader
    /\ imagenet_loader = NoLoader
    /\ zipped = <<>>
    /\ zp_pos = 0
    /\ zp_last = <<NoBatch, NoBatch>>

\* train_batches_things and train_batches_imagenet of a fold
ZipInit ==
    /\ zp_pc = "loaders"
    /\ \E n \in 1..MaxItems, bs \in 1..MaxBatchSize :
           things_loader = get_batches("things", n, bs, TRUE, 0)
    /\ \E n \in 1..MaxItems, bs \in 1..MaxBatchSize :
           imagenet_loader = get_batches("imagenet", n, bs, TRUE, 1)
    /\ zipped = <<>>
    /\ zp_pos = 0
    /\ zp_last = <<NoBatch, NoBatch>>

Zip ==
    /\ zp_pc = "loaders"
    /\ zipped' = paired_batches(things_loader, imagenet_loader)
    /\ zp_pc' = "zipped"
    /\ UNCHANGED <<things_loader, imagenet_loader, zp_pos, zp_last>>

\* one step of a pass over the paired batches
ZipNext ==
    /\ zp_pc = "zipped"
    /\ zp_pos < Len(zipped)
    /\ zp_pos' = zp_pos + 1
    /\ zp_last' = zipped[zp_pos + 1]
    /\ UNCHANGED <<zp_pc, things_loader, imagenet_loader, zipped>>

\* the pass ends: no pair is left
ZipStop ==
    /\ zp_pc = "zipped"
    /\ zp_pos = Len(zipped)
    /\ zp_pc' = "exhausted"
    /\ UNCHANGED <<things_loader, imagenet_loader, zipped, zp_pos, zp_last>>

-----------------------------------------------------------------------------
(* FromScratch.break_ties                                                   *)
(* A probability is an integer number of thousandths (0.34 is 340) that     *)
(* stands for the float32 nearest to it.                                    *)

\* n / d rounded to the nearest integer, a tie going to the even one (the
\* IEEE default rounding, and nearbyint)
HalfEven(n, d) ==
    LET q == n \div d
        r == n % d
    IN IF 2 * r < d THEN q
       ELSE IF 2 * r > d THEN q + 1
       ELSE IF q % 2 = 0 THEN q ELSE q + 1

RECURSIVE F32Scale(_, _, _)
\* (q + r / 1000) doubled until q has 24 bits: q, r and the number s of
\* doublings
F32Scale(q, r, s) ==
    IF q >= 2^23 THEN [q |-> q, r |-> r, s |-> s]
    ELSE F32Scale(2 * q + (2 * r) \div 1000, (2 * r) % 1000, s + 1)

\* the float32 nearest to x / 1000, as mantissa m and exponent s: m / 2^s
F32OfThousandths(x) ==
    LET f == F32Scale(x \div 1000, x % 1000, 0)
        m == IF 2 * f.r < 1000 THEN f.q
             ELSE IF 2 * f.r > 1000 THEN f.q + 1
             ELSE IF f.q % 2 = 0 THEN f.q ELSE f.q + 1
    IN [m |-> m, s |-> f.s]

\* the bits a product n has beyond the 24 of a float32 mantissa
F32Excess(n) == CHOOSE t \in 0..8 : n \div 2^t < 2^24 /\ (t = 0 \/ n \div 2^(t - 1) >= 2^24)

\* pmf.round(decimals=2) of the float32 that stands for x thousandths, in
\* hundredths: the float32 product with 100, then nearbyint (the division by
\* 100 that follows maps equal integers to equal floats)
F32Round2(x) ==
    IF x = 0 THEN 0
    ELSE LET f == F32OfThousandths(x)
             n == f.m * 100
             t == F32Excess(n)
             m2 == HalfEven(n, 2^t)
         IN HalfEven(m2, 2^(f.s - t))

\* F32Round2, tabulated over the probabilities 0 .. 1
Round2Table == [x \in 0..1000 |-> F32Round2(x)]

Round2(x) == Round2Table[x]

\* torch.unique(pmf).shape[0]
UniqueCount(pmf) == Cardinality({pmf[i] : i \in DOMAIN pmf})

\* torch.unique(pmf.round(decimals=2)).shape[0]
UniqueRoundedCount(pmf) == Cardinality({Round2(pmf[i]) : i \in DOMAIN pmf})

\* torch.argmax(pmf): the 0-based index of the (first) largest entry
ArgMax(pmf) ==
    CHOOSE i \in 0..(Len(pmf) - 1) :
        /\ \A j \in DOMAIN pmf : pmf[j] <= pmf[i + 1]
        /\ \A j \in 1..i : pmf[j] < pmf[i + 1]

\* mutant: only exact duplicates are ambiguous, the rounding test is dropped
break_ties_NoRounding(P) ==
    [r \in DOMAIN P |->
        IF UniqueCount(P[r]) # Len(P[r]) THEN Sentinel ELSE ArgMax(P[r])]

\* -1 if unique(pmf).shape[0] != pmf.shape[0]
\*       or unique(pmf.round(decimals=2)).shape[0] == 1 else argmax(pmf)
break_ties(P) ==
    [r \in DOMAIN P |->
        IF \/ UniqueCount(P[r]) # Len(P[r])
           \/ UniqueRoundedCount(P[r]) = 1
        THEN Sentinel
        ELSE ArgMax(P[r])]

\* the probabilities a row is drawn from
ProbValues == {0, 100, 200, 330, 332, 334, 340, 500, 700}

\* rows with an entry half-way between two hundredths
BoundaryPmfs == {<<295, 300, 304>>, <<295, 292, 294>>, <<15, 20, 24>>}

Pmfs == [1..TripletSize -> ProbValues] \cup BoundaryPmfs

NoAcc == [kind |-> "none", num |-> 0, den |-> 0, list |-> <<>>]

TiesIdle ==
    /\ tb_pc = "idle"
    /\ probas = <<>>
    /\ choices = <<>>
    /\ batching = TRUE
    /\ acc = NoAcc

TiesInit ==
    /\ tb_pc = "input"
    /\ \E n \in 1..MaxRows : probas \in [1..n -> Pmfs]
    /\ choices = <<>>
    /\ batching = TRUE
    /\ acc = NoAcc

BreakTies ==
    /\ tb_pc = "input"
    /\ choices' = break_ties(probas)
    /\ tb_pc' = "done"
    /\ UNCHANGED <<probas, batching, acc>>

-----------------------------------------------------------------------------
(* FromScratch._step: the combined loss                                     *)
(* A float is finite (an integer here), +inf or NaN.                        *)

Fin(n) == [k |-> "fin", v |-> n]
Inf == [k |-> "inf", v |-> 0]
NaN == [k |-> "nan", v |-> 0]

\* w * x for a weight w >= 0: 0 * inf is NaN
FMul(w, x) ==
    IF x.k = "nan" THEN NaN
    ELSE IF x.k = "inf" THEN (IF w = 0 THEN NaN ELSE Inf)
    ELSE Fin(w * x.v)

\* x + y for x, y that are not -inf
FAdd(x, y) ==
    IF x.k = "nan" \/ y.k = "nan" THEN NaN
    ELSE IF x.k = "inf" \/ y.k = "inf" THEN Inf
    ELSE Fin(x.v + y.v)

\* mutant: alpha weights the similarity term
combined_loss_Swapped(a, sim, cls) ==
    FAdd(FMul(a, sim), FMul(AlphaDen - a, cls))

\* loss = (1 - self.alpha) * similarity_loss + self.alpha * classification_loss
\* (a is alpha * AlphaDen, the result is loss * AlphaDen)
combined_loss(a, sim, cls) ==
    FAdd(FMul(AlphaDen - a, sim), FMul(a, cls))

\* the values a loss function returns
LossValues == {Fin(n) : n \in 0..MaxLoss} \cup {Inf, NaN}

\* training_step / validation_step / test_step log the loss under these names
StepHooks == {"train_loss", "val_loss", "test_loss"}

\* mutant: the objectives alternate, one loss per step
step_losses_Alternating(idx) ==
    IF idx % 2 = 0
    THEN [similarity |-> "things_batch", classification |-> "none"]
    ELSE [similarity |-> "none", classification |-> "imagenet_batch"]

\* _step, whatever batch_idx is: similarity_loss from the embeddings of
\* things_batch, classification_loss from the logits of imagenet_batch
step_losses(idx) ==
    [similarity |-> "things_batch", classification |-> "imagenet_batch"]

NoLosses == [similarity |-> "none", classification |-> "none"]

StepIdle ==
    /\ st_pc = "idle"
    /\ alpha = 0
    /\ similarity_loss = Fin(0)
    /\ classification_loss = Fin(0)
    /\ loss = Fin(0)
    /\ logged = "none"
    /\ batch_idx = 0
    /\ computed = NoLosses

\* a module with some alpha, before a step; the two loss values are those the
\* loss functions will return on the batch pair
StepInit ==
    /\ st_pc = "input"
    /\ alpha \in 0..AlphaDen
    /\ similarity_loss \in LossValues
    /\ classification_loss \in LossValues
    /\ loss = Fin(0)
    /\ logged = "none"
    /\ batch_idx \in 0..MaxBatchIdx
    /\ computed = NoLosses

\* one of the step hooks runs _step on a batch pair and logs the loss
Step ==
    /\ st_pc = "input"
    /\ loss' = combined_loss(alpha, similarity_loss, classification_loss)
    /\ computed' = step_losses(batch_idx)
    /\ \E hook \in StepHooks : logged' = hook
    /\ st_pc' = "done"
    /\ UNCHANGED <<alpha, similarity_loss, classification_loss, batch_idx>>

-----------------------------------------------------------------------------
(* parseargs, get_callbacks and the start of run                            *)

\* aa("--features_type", default="hdf5", choices=["hdf5", "pt"])
FeaturesTypeChoices == {"hdf5", "pt"}

\* aa("--optim", default="Adam", choices=["Adam", "AdamW", "SGD"])
OptimChoices == {"Adam", "AdamW", "SGD"}

\* values a caller may pass
FeaturesTypeInputs == FeaturesTypeChoices \cup {"hdf", "csv"}
\* numbers of objects a caller may pass: one fewer than n_splits, and n_splits
NObjectsInputs == {NSplits - 1, NSplits}

OptimInputs == OptimChoices \cup {"RMSprop"}

\* mutant: the callback is built with check_finite=False
get_callbacks_NoFiniteCheck(pat) ==
    [monitor |-> "val_loss", min_delta |-> MinDelta, mode |-> "min",
     patience |-> pat, check_finite |-> FALSE,
     wait_count |-> 0, best_score |-> Inf]

\* get_callbacks: EarlyStopping(monitor="val_loss", min_delta=1e-4, mode="min",
\* patience=optim_cfg["patience"], check_finite=True); a fresh callback has
\* wait_count 0 and best_score +inf
get_callbacks(pat) ==
    [monitor |-> "val_loss", min_delta |-> MinDelta, mode |-> "min",
     patience |-> pat, check_finite |-> TRUE,
     wait_count |-> 0, best_score |-> Inf]

NoCallback ==
    [monitor |-> "none", min_delta |-> 0, mode |-> "min", patience |-> 0,
     check_finite |-> FALSE, wait_count |-> 0, best_score |-> Inf]

\* the class run picks for the ImageNet features, "none" for the else branch
features_class(ft) ==
    IF ft = "hdf" THEN "FeaturesHDF5"
    ELSE IF ft = "pt" THEN "FeaturesPT"
    ELSE "none"

\* the strings s with s.lower() == "adam"
LowerIsAdam ==
    {"ADAM", "ADAm", "ADaM", "ADam", "AdAM", "AdAm", "AdaM", "Adam",
     "aDAM", "aDAm", "aDaM", "aDam", "adAM", "adAm", "adaM", "adam"}

\* the strings s with s.lower() == "sgd"
LowerIsSgd ==
    {"SGD", "SGd", "SgD", "Sgd", "sGD", "sGd", "sgD", "sgd"}

\* FromScratch.configure_optimizers: self.optim.lower() == "adam" gives
\* torch.optim.Adam (getattr of self.optim.capitalize()), == "sgd" gives
\* torch.optim.SGD (getattr of self.optim.upper()), anything else raises
configure_optimizers(opt) ==
    IF opt \in LowerIsAdam THEN "Adam"
    ELSE IF opt \in LowerIsSgd THEN "SGD"
    ELSE "ValueError"

RunIdle ==
    /\ pc = "idle"
    /\ entry = "none"
    /\ features_type = "none"
    /\ optim = "none"
    /\ use_bias = FALSE
    /\ max_epochs = 0
    /\ min_epochs = 0
    /\ patience = 0
    /\ run_n_objects = 0
    /\ stop_latches = FALSE
    /\ early_stopping = NoCallback
    /\ features_backend = "none"
    /\ k = 0
    /\ epoch = 0
    /\ should_stop = FALSE
    /\ val_history = <<>>
    /\ phases = <<>>
    /\ val_performance = <<>>
    /\ cv_results = <<>>
    /\ predictions = <<>>
    /\ ooo_choices = <<>>
    /\ transformation = {}
    /\ archive = {}
    /\ error = "none"

\* the process before the command line is parsed or run is called; which
\* Lightning is installed decides whether trainer.should_stop stays set when
\* min_epochs is not met (1.8 and later) or is reset (up to 1.7)
RunInit ==
    /\ pc = "start"
    /\ entry = "none"
    /\ features_type = "none"
    /\ optim = "none"
    /\ use_bias = FALSE
    /\ max_epochs = 0
    /\ min_epochs = 0
    /\ patience = 0
    /\ run_n_objects = 0
    /\ stop_latches \in BOOLEAN
    /\ early_stopping = NoCallback
    /\ features_backend = "none"
    /\ k = 0
    /\ epoch = 0
    /\ should_stop = FALSE
    /\ val_history = <<>>
    /\ phases = <<>>
    /\ val_performance = <<>>
    /\ cv_results = <<>>
    /\ predictions = <<>>
    /\ ooo_choices = <<>>
    /\ transformation = {}
    /\ archive = {}
    /\ error = "none"

\* the arguments and the configuration derived from them
SetConfig(via, ft, opt, bias, ep, burn, pat, n) ==
    /\ entry' = via
    /\ features_type' = ft
    /\ optim' = opt
    /\ use_bias' = bias
    /\ max_epochs' = ep
    /\ min_epochs' = burn
    /\ patience' = pat
    /\ run_n_objects' = n

\* __main__: parseargs accepts the command line, create_optimization_config,
\* run is called
ParseArgs ==
    /\ pc = "start"
    /\ \E ft \in FeaturesTypeChoices, opt \in OptimChoices, bias \in BOOLEAN,
          ep \in 1..MaxEpochs, burn \in 0..MaxEpochs, pat \in 1..MaxPatience,
          n \in NObjectsInputs :
           SetConfig("main", ft, opt, bias, ep, burn, pat, n)
    /\ pc' = "run"
    /\ UNCHANGED <<stop_latches, fitVars, outVars, features_backend, k, phases,
                   error>>

\* __main__: argparse rejects a value that is not among the choices and exits
ParseArgsReject ==
    /\ pc = "start"
    /\ \E ft \in FeaturesTypeInputs, opt \in OptimInputs :
          /\ ft \notin FeaturesTypeChoices \/ opt \notin OptimChoices
          /\ features_type' = ft
          /\ optim' = opt
    /\ entry' = "main"
    /\ pc' = "exited"
    /\ error' = "usage"
    /\ UNCHANGED <<use_bias, max_epochs, min_epochs, patience, run_n_objects,
                   stop_latches, fitVars, outVars, features_backend, k, phases>>

\* run called as a function, with any features_type and optim_cfg
CallRun ==
    /\ pc = "start"
    /\ \E ft \in FeaturesTypeInputs, opt \in OptimInputs, bias \in BOOLEAN,
          ep \in 1..MaxEpochs, burn \in 0..MaxEpochs, pat \in 1..MaxPatience,
          n \in NObjectsInputs :
           SetConfig("call", ft, opt, bias, ep, burn, pat, n)
    /\ pc' = "run"
    /\ UNCHANGED <<stop_latches, fitVars, outVars, features_backend, k, phases,
                   error>>

\* run, up to the fold loop: get_callbacks, the feature store for
\* features_type, load_triplets, normalisation, kf, cv_results, ooo_choices
RunSetup ==
    /\ pc = "run"
    /\ features_class(features_type) # "none"
    /\ early_stopping' = get_callbacks(patience)
    /\ features_backend' = features_class(features_type)
    /\ cv_results' = <<>>
    /\ ooo_choices' = <<>>
    /\ pc' = "loop"
    /\ UNCHANGED <<cfgVars, epoch, should_stop, val_history, val_performance,
                   predictions, transformation, archive, k, phases, error>>

\* run: the else branch raises ValueError (after get_callbacks)
RunRaiseFeatures ==
    /\ pc = "run"
    /\ features_class(features_type) = "none"
    /\ early_stopping' = get_callbacks(patience)
    /\ pc' = "raised"
    /\ error' = "features_type"
    /\ UNCHANGED <<cfgVars, epoch, should_stop, val_history, outVars,
                   features_backend, k, phases>>

-----------------------------------------------------------------------------
(* run: the fold body; Trainer.fit with EarlyStopping, test, predict, export *)

\* the monitored val_loss of a validation check: finite, in units of
\* min_delta, or not (NaN stands for every non-finite value, torch.isfinite
\* is false for all of them)
ValLossValues == {Fin(0), Fin(1), Fin(2), NaN}

\* monitor_op(current - min_delta, best_score) for mode="min":
\* current + min_delta < best_score
es_improved(es, current) ==
    /\ current.k = "fin"
    /\ \/ es.best_score.k = "inf"
       \/ es.best_score.k = "fin" /\ current.v + es.min_delta < es.best_score.v

\* EarlyStopping._evaluate_stopping_criteria: should_stop and the new state
es_evaluate(es, current) ==
    IF es.check_finite /\ current.k # "fin"
    THEN [stop |-> TRUE, es |-> es]
    ELSE IF es_improved(es, current)
    THEN [stop |-> FALSE,
          es |-> [es EXCEPT !.best_score = current, !.wait_count = 0]]
    ELSE [stop |-> es.wait_count + 1 >= es.patience,
          es |-> [es EXCEPT !.wait_count = es.wait_count + 1]]

\* FitLoop: met_min_epochs = processed >= min_epochs if min_epochs else True
met_min_epochs(processed, min_e) ==
    IF min_e # 0 THEN processed >= min_e ELSE TRUE

\* mutant: a stop signal ends the fit whatever min_epochs is
fit_done_NoFloor(processed, signalled, min_e, max_e) ==
    processed >= max_e \/ signalled

\* FitLoop.done for Trainer(max_epochs=..., min_epochs=...): the epoch limit,
\* or trainer.should_stop once the minimum is met
fit_done(processed, signalled, min_e, max_e) ==
    \/ processed >= max_e
    \/ signalled /\ met_min_epochs(processed, min_e)

\* mutant: the fold body does not end with break
next_pc_NoBreak(p) ==
    IF p = "fit" THEN "test"
    ELSE IF p = "test" THEN "predict"
    ELSE IF p = "predict" THEN "loop"
    ELSE "returned"

\* mutant: predictions are made before the test pass
next_pc_PredictFirst(p) ==
    IF p = "fit" THEN "predict"
    ELSE IF p = "predict" THEN "test"
    ELSE IF p = "test" THEN "export"
    ELSE "returned"

\* the statements of the fold body and after it, in program order:
\* trainer.fit; trainer.test; trainer.predict ... break; the export; return
next_pc(p) ==
    IF p = "fit" THEN "test"
    ELSE IF p = "test" THEN "predict"
    ELSE IF p = "predict" THEN "export"
    ELSE "returned"

\* f"fold_{k:02d}" for the folds of n_splits=4
fold_key(f) ==
    IF f = 1 THEN "fold_01"
    ELSE IF f = 2 THEN "fold_02"
    ELSE IF f = 3 THEN "fold_03"
    ELSE "fold_04"

\* the loop takes the next of the n_splits splits; partition, loaders,
\* pairing, probe, Trainer
FoldStart ==
    /\ pc = "loop"
    /\ run_n_objects >= NSplits
    /\ k < NSplits
    /\ k' = k + 1
    /\ pc' = "fold"
    /\ UNCHANGED <<cfgVars, fitVars, outVars, features_backend, phases, error>>

\* the loop header: kf.split(objects) raises ValueError when n_splits is
\* greater than the number of objects, which leaves run
FoldRaiseSplit ==
    /\ pc = "loop"
    /\ run_n_objects < NSplits
    /\ pc' = "raised"
    /\ error' = "n_splits"
    /\ UNCHANGED <<cfgVars, fitVars, outVars, features_backend, k, phases>>

\* GlocalFeatureProbe.configure_optimizers, the probe run fits: every name
\* of the optimizer choice yields that optimizer, another name is an error
probe_configure_optimizers(opt) ==
    IF opt \in OptimChoices THEN opt ELSE "ValueError"

\* trainer.fit begins: the strategy set-up calls the probe's
\* configure_optimizers
FitStart ==
    /\ pc = "fold"
    /\ probe_configure_optimizers(optim) # "ValueError"
    /\ phases' = Append(phases, "Fitting")
    /\ epoch' = 0
    /\ should_stop' = FALSE
    /\ val_history' = <<>>
    /\ pc' = "fit"
    /\ UNCHANGED <<cfgVars, early_stopping, outVars, features_backend, k, error>>

\* trainer.fit: the probe's configure_optimizers raises, which leaves run
FitRaiseOptim ==
    /\ pc = "fold"
    /\ probe_configure_optimizers(optim) = "ValueError"
    /\ phases' = Append(phases, "Fitting")
    /\ pc' = "raised"
    /\ error' = "optim"
    /\ UNCHANGED <<cfgVars, fitVars, outVars, features_backend, k>>

\* one epoch of trainer.fit: the training pass, the validation pass, the
\* EarlyStopping check on val_loss, then FitLoop.done.  A Lightning that does
\* not latch resets trainer.should_stop when min_epochs is not met yet.
FitEpoch ==
    /\ pc = "fit"
    /\ \E v \in ValLossValues :
          LET r == es_evaluate(early_stopping, v)
              signalled == should_stop \/ r.stop
              e == epoch + 1
          IN /\ early_stopping' = r.es
             /\ epoch' = e
             /\ val_history' = Append(val_history, v)
             /\ should_stop' =
                    IF signalled /\ ~met_min_epochs(e, min_epochs) /\ ~stop_latches
                    THEN FALSE
                    ELSE signalled
             /\ pc' = IF fit_done(e, signalled, min_epochs, max_epochs)
                      THEN next_pc("fit")
                      ELSE "fit"
    /\ UNCHANGED <<cfgVars, outVars, features_backend, k, phases, error>>

\* the metrics FromScratch.test_step logs
FromScratchTestMetrics ==
    {"test_loss", "test_imgnt_loss", "test_imgnt_acc", "test_things_loss",
     "test_things_acc"}

\* what trainer.test can return for the probe: a list with the dict of the
\* metrics its test_step logged (the two __main__ reads, or those of
\* FromScratch.test_step), or an empty list
TestResults ==
    {<<{"test_acc", "test_loss"}>>, <<FromScratchTestMetrics>>, <<>>}

\* val_performance = trainer.test(glocal_probe, dataloaders=val_batches)
Test ==
    /\ pc = "test"
    /\ phases' = Append(phases, "Evaluating")
    /\ val_performance' \in TestResults
    /\ pc' = next_pc("test")
    /\ UNCHANGED <<cfgVars, fitVars, cv_results, predictions, ooo_choices,
                   transformation, archive, features_backend, k, error>>

\* the list torch.cat(predictions, dim=0).tolist() of a fold with three
\* validation triplets: one odd-one-out index per triplet
PredictionLists == {<<Negative, Anchor, Positive>>}

RECURSIVE concatenate(_)
\* np.concatenate(ooo_choices): the per-fold lists joined into one flat array
concatenate(lists) ==
    IF lists = <<>> THEN <<>> ELSE Head(lists) \o concatenate(Tail(lists))

\* predictions = trainer.predict(...); ooo_choices.append(predictions);
\* cv_results[f"fold_{k:02d}"] = val_performance; break
Predict ==
    /\ pc = "predict"
    /\ phases' = Append(phases, "Predicting")
    /\ predictions' \in PredictionLists
    /\ ooo_choices' = Append(ooo_choices, predictions')
    /\ cv_results' = [key \in DOMAIN cv_results \cup {fold_key(k)} |->
                         IF key = fold_key(k) THEN val_performance
                         ELSE cv_results[key]]
    /\ pc' = next_pc("predict")
    /\ UNCHANGED <<cfgVars, fitVars, val_performance, transformation, archive,
                   features_backend, k, error>>

\* mutant: the bias is exported whatever the flag is
export_keys_AlwaysBias(bias) == {"weights", "bias"}

\* run: transformation["weights"] always, transformation["bias"] if
\* optim_cfg["use_bias"]
export_keys(bias) ==
    IF bias THEN {"weights", "bias"} ELSE {"weights"}

\* __main__: np.savez_compressed(weights=..., bias=...) if
\* optim_cfg["use_bias"], else np.savez_compressed(weights=...)
archive_keys(bias) ==
    IF bias THEN {"weights", "bias"} ELSE {"weights"}

\* transformation["weights"], and ["bias"] if optim_cfg["use_bias"];
\* ooo_choices = np.concatenate(ooo_choices); return
Export ==
    /\ pc = "export"
    /\ phases' = Append(phases, "Done")
    /\ transformation' = export_keys(use_bias)
    /\ ooo_choices' = concatenate(ooo_choices)
    /\ pc' = next_pc("export")
    /\ UNCHANGED <<cfgVars, fitVars, val_performance, cv_results, predictions,
                   archive, features_backend, k, error>>

\* the fold keys in the order run inserts them
FoldKeys == <<"fold_01", "fold_02", "fold_03", "fold_04">>

RECURSIVE mean_over(_, _, _)
\* np.mean([vals[0][metric] for vals in cv_results.values()]) from entry i
\* on: vals[0] of an empty list is an IndexError, a missing metric a
\* KeyError, else the mean is a number
mean_over(cv, metric, i) ==
    IF i > Len(FoldKeys) THEN "number"
    ELSE IF FoldKeys[i] \notin DOMAIN cv THEN mean_over(cv, metric, i + 1)
    ELSE IF Len(cv[FoldKeys[i]]) = 0 THEN "IndexError"
    ELSE IF metric \notin cv[FoldKeys[i]][1] THEN "KeyError"
    ELSE mean_over(cv, metric, i + 1)

\* get_mean_cv_acc(cv_results, metric="test_acc")
get_mean_cv_acc(cv) == mean_over(cv, "test_acc", 1)

\* get_mean_cv_loss(cv_results, metric="test_loss")
get_mean_cv_loss(cv) == mean_over(cv, "test_loss", 1)

\* __main__ after run returned: avg_cv_acc, then avg_cv_loss; an exception
\* of either ends the process before anything is saved
MainMeans ==
    /\ pc = "returned"
    /\ entry = "main"
    /\ LET mean_acc == get_mean_cv_acc(cv_results)
           mean_loss == get_mean_cv_loss(cv_results)
       IN IF mean_acc = "IndexError" \/ mean_loss = "IndexError"
          THEN pc' = "raised" /\ error' = "IndexError"
          ELSE IF mean_acc = "KeyError"
          THEN pc' = "raised" /\ error' = "KeyError: test_acc"
          ELSE IF mean_loss = "KeyError"
          THEN pc' = "raised" /\ error' = "KeyError: test_loss"
          ELSE pc' = "means" /\ error' = error
    /\ UNCHANGED <<cfgVars, fitVars, outVars, features_backend, k, phases>>

\* __main__ after the means: save_results, then transform.npz;
\* transform[key] of a key run did not export is a KeyError
SaveArchive ==
    /\ pc = "means"
    /\ entry = "main"
    /\ LET wanted == archive_keys(use_bias)
       IN IF wanted \subseteq transformation
          THEN /\ archive' = wanted
               /\ pc' = "saved"
               /\ error' = error
          ELSE /\ archive' = archive
               /\ pc' = "raised"
               /\ error' = "KeyError: transform"
    /\ UNCHANGED <<cfgVars, fitVars, val_performance, cv_results, predictions,
                   ooo_choices, transformation, features_backend, k, phases>>

-----------------------------------------------------------------------------
(* Trainer.fit of a FromScratch module: configure_optimizers                *)

\* the optimizer names a module is constructed with: all spellings that
\* lower() maps to "adam" or "sgd", the third choice of --optim, and a name
\* outside the choices
OptimNames == LowerIsAdam \cup LowerIsSgd \cup OptimInputs

\* learning rates and regularisation strengths, in thousandths
LrValues == {1, 10}
LmbdaValues == {0, 1}

NoOptimizer == [class |-> "none"]

\* what configure_optimizers returns: Adam(params, lr, weight_decay) or
\* SGD(params, lr, momentum=0.9, weight_decay); momentum in tenths, -1 for
\* an optimizer that has none
make_optimizer(opt, lr, lmbda) ==
    IF configure_optimizers(opt) = "Adam"
    THEN [class |-> "Adam", lr |-> lr, weight_decay |-> lmbda,
          momentum |-> Sentinel]
    ELSE [class |-> "SGD", lr |-> lr, weight_decay |-> lmbda, momentum |-> 9]

OptimIdle ==
    /\ op_pc = "idle"
    /\ op_optim = "none"
    /\ op_lr = 0
    /\ op_lmbda = 0
    /\ optimizer = NoOptimizer
    /\ op_error = "none"

\* FromScratch(optim_cfg, ...): __init__ stores optim, lr and lmbda
OptimInit ==
    /\ op_pc = "constructed"
    /\ op_optim \in OptimNames
    /\ op_lr \in LrValues
    /\ op_lmbda \in LmbdaValues
    /\ optimizer = NoOptimizer
    /\ op_error = "none"

\* trainer.fit(module, ...) is entered
FitEnter ==
    /\ op_pc = "constructed"
    /\ op_pc' = "fit"
    /\ UNCHANGED <<op_optim, op_lr, op_lmbda, optimizer, op_error>>

\* the set-up of the fit calls configure_optimizers, which returns
ConfigureOptimizers ==
    /\ op_pc = "fit"
    /\ configure_optimizers(op_optim) # "ValueError"
    /\ optimizer' = make_optimizer(op_optim, op_lr, op_lmbda)
    /\ op_pc' = "training"
    /\ UNCHANGED <<op_optim, op_lr, op_lmbda, op_error>>

\* the set-up of the fit calls configure_optimizers, which raises ValueError
ConfigureOptimizersRaise ==
    /\ op_pc = "fit"
    /\ configure_optimizers(op_optim) = "ValueError"
    /\ op_pc' = "raised"
    /\ op_error' = "ValueError"
    /\ UNCHANGED <<op_optim, op_lr, op_lmbda, optimizer>>

-----------------------------------------------------------------------------
(* FromScratch.accuracy_                                                    *)

\* the rows an accuracy batch is drawn from: a clear choice of each index, an
\* exact duplicate, and rows whose entries round to one hundredth
AccPmfs ==
    {<<700, 200, 100>>, <<200, 700, 100>>, <<100, 200, 700>>,
     <<500, 500, 0>>, <<334, 332, 330>>, <<332, 334, 330>>}

RECURSIVE SumSeq(_)
\* ndarray.sum()
SumSeq(s) == IF s = <<>> THEN 0 ELSE Head(s) + SumSeq(Tail(s))

\* mutant: the choices are the plain arg-max, without break_ties
accuracy_NoTies(P, batch) ==
    LET argmax == [r \in DOMAIN P |-> IF ArgMax(P[r]) = 0 THEN 1 ELSE 0]
    IN IF batch
       THEN [kind |-> "mean", num |-> SumSeq(argmax), den |-> Len(argmax),
             list |-> <<>>]
       ELSE [kind |-> "list", num |-> 0, den |-> 0, list |-> argmax]

\* choices = self.break_ties(probas); argmax = np.where(choices == 0, 1, 0);
\* argmax.mean() if batching else argmax.tolist()
\* (the mean is kept as the fraction num / den)
accuracy_(P, batch) ==
    LET ch == break_ties(P)
        argmax == [r \in DOMAIN ch |-> IF ch[r] = 0 THEN 1 ELSE 0]
    IN IF batch
       THEN [kind |-> "mean", num |-> SumSeq(argmax), den |-> Len(argmax),
             list |-> <<>>]
       ELSE [kind |-> "list", num |-> 0, den |-> 0, list |-> argmax]

\* a batch of probabilities and the batching flag, before accuracy_ is called
AccuracyInit ==
    /\ tb_pc = "input"
    /\ \E n \in 1..AccRows : probas \in [1..n -> AccPmfs]
    /\ choices = <<>>
    /\ batching \in BOOLEAN
    /\ acc = NoAcc

Accuracy ==
    /\ tb_pc = "input"
    /\ choices' = break_ties(probas)
    /\ acc' = accuracy_(probas, batching)
    /\ tb_pc' = "done"
    /\ UNCHANGED <<probas, batching>>

-----------------------------------------------------------------------------
(* FromScratch.predict_step, convert_predictions, compute_similarities      *)

\* compute_similarities returns (sim_i, sim_j, sim_k): anchor * positive,
\* anchor * negative, positive * negative; the members of pair i
pair_members(i) ==
    IF i = 0 THEN {Anchor, Positive}
    ELSE IF i = 1 THEN {Anchor, Negative}
    ELSE {Positive, Negative}

\* mutant: the pair index is returned as the odd-one-out
convert_predictions_Identity(x) == x

\* first_conversion = where(x != 1, x - 2, x);
\* ooo_predictions = where(first_conversion < 0, 2, first_conversion)
convert_predictions(x) ==
    LET first_conversion == IF x # 1 THEN x - 2 ELSE x
    IN IF first_conversion < 0 THEN 2 ELSE first_conversion

\* the softmax rows predict_step takes the arg-max of: three probabilities
\* in thousandths that add up to one
PredictProbValues == {0, 100, 200, 300, 400, 500, 600, 700, 800}

PredictPmfs ==
    {p \in [1..TripletSize -> PredictProbValues] : p[1] + p[2] + p[3] = 1000}

PredictIdle ==
    /\ pr_pc = "idle"
    /\ pr_probas = <<>>
    /\ sim_predictions = <<>>
    /\ ooo_predictions = <<>>

\* a batch of triplets whose softmax rows are pr_probas, before predict_step
PredictInit ==
    /\ pr_pc = "input"
    /\ \E n \in 1..PredictRows : pr_probas \in [1..n -> PredictPmfs]
    /\ sim_predictions = <<>>
    /\ ooo_predictions = <<>>

\* sim_predictions = torch.argmax(F.softmax(...), dim=1);
\* ooo_predictions = self.convert_predictions(sim_predictions)
PredictStep ==
    /\ pr_pc = "input"
    /\ LET sims == [r \in DOMAIN pr_probas |-> ArgMax(pr_probas[r])]
       IN /\ sim_predictions' = sims
          /\ ooo_predictions' = [r \in DOMAIN sims |-> convert_predictions(sims[r])]
    /\ pr_pc' = "done"
    /\ UNCHANGED pr_probas

-----------------------------------------------------------------------------
(* run: passes of trainer.fit and trainer.test over the paired streams      *)
(* A batch is the sequence of dataset positions it holds.                   *)

\* the sampler of a DataLoader: RandomSampler draws a new permutation on each
\* pass if shuffle, SequentialSampler gives the positions in order if not
sampler_orders(loader) ==
    LET n == loader.size
    IN IF loader.shuffle
       THEN Permutations(1..n)
       ELSE {[i \in 1..n |-> i]}

\* the batches of one pass over the loader under a sampler order
pass_batches(loader, order) ==
    [i \in 1..LoaderLen(loader) |->
        SubSeq(order, LoaderBatch(loader, i).first, LoaderBatch(loader, i).last)]

\* run lines 428-450: the four loaders of a fold
train_batches_things(n, bs) == get_batches("things", n, bs, TRUE, 0)
train_batches_imagenet(n, bs) == get_batches("imagenet", n, bs, TRUE, 1)
val_batches_things(n, bs) == get_batches("things", n, bs, FALSE, 0)
val_batches_imagenet(n, bs) == get_batches("imagenet", n, bs, TRUE, 1)

\* mutant: the paired stream is a one-shot iterator, empty after its first pass
iter_zipped_OneShot(things, imagenet, o1, o2, done) ==
    LET bi == pass_batches(things, o1)
        bj == pass_batches(imagenet, o2)
    IN IF done > 0 THEN <<>>
       ELSE [i \in 1..Min(Len(bi), Len(bj)) |-> <<bi[i], bj[i]>>]

\* one pass over zip_batches(things, imagenet): a fresh pairing from a new
\* pass over each source, whatever number of passes was made before
iter_zipped(things, imagenet, o1, o2, done) ==
    LET bi == pass_batches(things, o1)
        bj == pass_batches(imagenet, o2)
    IN [i \in 1..Min(Len(bi), Len(bj)) |-> <<bi[i], bj[i]>>]

PassesIdle ==
    /\ ps_pc = "idle"
    /\ ps_kind = "none"
    /\ ps_things = NoLoader
    /\ ps_imagenet = NoLoader
    /\ ps_count = 0
    /\ ps_delivered = <<>>
    /\ ps_previous = <<>>

\* train_batches or val_batches of a fold, before trainer.fit
PassesInit ==
    /\ ps_pc = "fit"
    /\ ps_kind \in {"train", "val"}
    /\ \E n \in 1..PassItems, bs \in 1..MaxBatchSize :
           ps_things = IF ps_kind = "train" THEN train_batches_things(n, bs)
                       ELSE val_batches_things(n, bs)
    /\ \E n \in 1..PassItems, bs \in 1..MaxBatchSize :
           ps_imagenet = IF ps_kind = "train" THEN train_batches_imagenet(n, bs)
                         ELSE val_batches_imagenet(n, bs)
    /\ ps_count = 0
    /\ ps_delivered = <<>>
    /\ ps_previous = <<>>

\* trainer.fit: the pass of one epoch over the stream (the training pass over
\* train_batches, the validation pass over val_batches)
EpochPass ==
    /\ ps_pc = "fit"
    /\ ps_count < MaxPasses
    /\ \E o1 \in sampler_orders(ps_things), o2 \in sampler_orders(ps_imagenet) :
           ps_delivered' = iter_zipped(ps_things, ps_imagenet, o1, o2, ps_count)
    /\ ps_previous' = ps_delivered
    /\ ps_count' = ps_count + 1
    /\ UNCHANGED <<ps_pc, ps_kind, ps_things, ps_imagenet>>

\* trainer.test(glocal_probe, dataloaders=val_batches) after the fit
TestPass ==
    /\ ps_pc = "fit"
    /\ ps_kind = "val"
    /\ ps_count >= 1
    /\ \E o1 \in sampler_orders(ps_things), o2 \in sampler_orders(ps_imagenet) :
           ps_delivered' = iter_zipped(ps_things, ps_imagenet, o1, o2, ps_count)
    /\ ps_previous' = ps_delivered
    /\ ps_count' = ps_count + 1
    /\ ps_pc' = "tested"
    /\ UNCHANGED <<ps_kind, ps_things, ps_imagenet>>

-----------------------------------------------------------------------------
(* FromScratch.forward and the forward hook                                 *)

NoTensor == [layer |-> "none", input |-> "none"]

\* the output of the hooked module and of the whole model for an input batch
Activation(x) == [layer |-> "module", input |-> x]
Logits(x) == [layer |-> "logits", input |-> x]

ThingsBatches == {"things_1", "things_2"}
ImagenetBatches == {"imagenet_1", "imagenet_2"}

\* mutant: the hook does not store the output
model_pass_NoHook(x, has_hook, acts) ==
    [out |-> Logits(x), activations |-> acts]

\* self.model(x): the forward hook, if one was registered in __init__, sets
\* self.activations = output of the named module; the call returns the logits
model_pass(x, has_hook, acts) ==
    [out |-> Logits(x),
     activations |-> IF has_hook THEN Activation(x) ELSE acts]

HookIdle ==
    /\ hk_pc = "idle"
    /\ hooked = FALSE
    /\ activations = NoTensor
    /\ things_batch = "none"
    /\ imagenet_batch_images = "none"
    /\ things_embeddings = NoTensor
    /\ imagenet_logits = NoTensor
    /\ calls = 0

\* __init__: self.activations = None; the hook is registered if self.module
\* names a module of the model
HookInit ==
    /\ hk_pc = "ready"
    /\ hooked \in BOOLEAN
    /\ activations = NoTensor
    /\ things_batch = "none"
    /\ imagenet_batch_images = "none"
    /\ things_embeddings = NoTensor
    /\ imagenet_logits = NoTensor
    /\ calls = 0

\* forward(things_batch, imagenet_batch_images) is called
ForwardCall ==
    /\ hk_pc \in {"ready", "returned"}
    /\ calls < MaxCalls
    /\ things_batch' \in ThingsBatches
    /\ imagenet_batch_images' \in ImagenetBatches
    /\ things_embeddings' = NoTensor
    /\ imagenet_logits' = NoTensor
    /\ calls' = calls + 1
    /\ hk_pc' = "called"
    /\ UNCHANGED <<hooked, activations>>

\* self.model(things_batch)
ForwardThings ==
    /\ hk_pc = "called"
    /\ activations' = model_pass(things_batch, hooked, activations).activations
    /\ hk_pc' = "things_done"
    /\ UNCHANGED <<hooked, things_batch, imagenet_batch_images,
                   things_embeddings, imagenet_logits, calls>>

\* things_ebmbeddings = self.activations
ForwardRead ==
    /\ hk_pc = "things_done"
    /\ things_embeddings' = activations
    /\ hk_pc' = "read"
    /\ UNCHANGED <<hooked, activations, things_batch, imagenet_batch_images,
                   imagenet_logits, calls>>

\* imagenet_logits = self.model(imagenet_batch_images); return
ForwardImagenet ==
    /\ hk_pc = "read"
    /\ LET r == model_pass(imagenet_batch_images, hooked, activations)
       IN /\ activations' = r.activations
          /\ imagenet_logits' = r.out
    /\ hk_pc' = "returned"
    /\ UNCHANGED <<hooked, things_batch, imagenet_batch_images,
                   things_embeddings, calls>>

-----------------------------------------------------------------------------
(* Claims on the object split and the triplet partition *)

InSeq(x, s) == \E i \in DOMAIN s : s[i] = x

\* C1: after partitioning by a fold's train objects, every triplet of the
\* input is in "train" only if all three members are train objects, in "val"
\* only if all three members are outside the train objects, in neither when
\* its members span both, and never in both; the partition holds no row that
\* is not a row of the input.
C1_PartitionMembership ==
    pt_pc = "done" =>
        LET tr == Range(train_objects)
            P  == triplet_partitioning
        IN /\ \A i \in DOMAIN triplets :
                LET t == triplets[i]
                    allTrain == \A m \in 1..TripletSize : t[m] \in tr
                    allVal   == \A m \in 1..TripletSize : t[m] \notin tr
                IN /\ InSeq(t, P.train) => allTrain
                   /\ InSeq(t, P.val) => allVal
                   /\ (~allTrain /\ ~allVal) =>
                          (~InSeq(t, P.train) /\ ~InSeq(t, P.val))
                   /\ ~(InSeq(t, P.train) /\ InSeq(t, P.val))
           /\ Range(P.train) \cup Range(P.val) \subseteq Range(triplets)

\* C1 witness: a fold whose "val" partition holds a triplet of two different
\* validation objects
C1_Witness ==
    /\ pt_pc = "done"
    /\ Len(triplet_partitioning.val) > 0
    /\ \E i \in DOMAIN triplet_partitioning.val :
           triplet_partitioning.val[i][1] # triplet_partitioning.val[i][2]

\* C2: in every fold the split yields, the train objects are exactly the
\* objects outside that fold's validation set, no object is in the validation
\* set of two folds, and once all folds are yielded every object has been in
\* the validation set of exactly one fold.
C2_KFoldCoverage ==
    /\ \A f \in DOMAIN kf_folds :
          /\ Range(kf_folds[f].train_idx) =
                 Objects(n_objects) \ Range(kf_folds[f].test_idx)
          /\ Range(kf_folds[f].train_idx) \cap Range(kf_folds[f].test_idx) = {}
          /\ Len(kf_folds[f].test_idx) = Cardinality(Range(kf_folds[f].test_idx))
    /\ \A f, g \in DOMAIN kf_folds :
          f # g => Range(kf_folds[f].test_idx) \cap Range(kf_folds[g].test_idx) = {}
    /\ kf_pc = "exhausted" =>
          \A o \in Objects(n_objects) :
              Cardinality({f \in DOMAIN kf_folds :
                              o \in Range(kf_folds[f].test_idx)}) = 1

\* C2 witness: all four folds yielded for an object count 4 does not divide
C2_Witness ==
    /\ kf_pc = "exhausted"
    /\ Len(kf_folds) = NSplits
    /\ n_objects % NSplits # 0

-----------------------------------------------------------------------------
(* Claims on the paired batch stream *)

\* the number of batches of a source: the least m with m * batch_size >= size
SourceLength(loader) ==
    CHOOSE m \in 0..loader.size :
        /\ m * loader.batch_size >= loader.size
        /\ \A j \in 0..(m - 1) : j * loader.batch_size < loader.size

\* C3: over a triplet source of m batches and an auxiliary source of n
\* batches the pairing holds exactly min(m, n) pairs, the i-th pair being the
\* i-th triplet batch with the i-th auxiliary batch; a pass yields them in
\* that order and ends after min(m, n) pairs (5 and 12 give 5, 7 and 7 give 7).
C3_ZipShorter ==
    LET m == SourceLength(things_loader)
        n == SourceLength(imagenet_loader)
        shorter == IF m <= n THEN m ELSE n
    IN zp_pc \in {"zipped", "exhausted"} =>
        /\ Len(zipped) = shorter
        /\ (m = 5 /\ n = 12) => Len(zipped) = 5
        /\ (m = 7 /\ n = 7) => Len(zipped) = 7
        /\ \A i \in DOMAIN zipped :
              /\ zipped[i][1].source = "things" /\ zipped[i][1].index = i
              /\ zipped[i][2].source = "imagenet" /\ zipped[i][2].index = i
              /\ zipped[i][1].first = (i - 1) * things_loader.batch_size + 1
              /\ zipped[i][2].first = (i - 1) * imagenet_loader.batch_size + 1
        /\ zp_pos <= shorter
        /\ zp_pos > 0 => (zp_last[1].index = zp_pos /\ zp_last[2].index = zp_pos
                          /\ zp_last[1].source = "things")
        /\ zp_pc = "exhausted" => zp_pos = shorter

\* C3 witness: a pass over 5 triplet batches and 12 auxiliary batches has ended
C3_Witness ==
    /\ zp_pc = "exhausted"
    /\ SourceLength(things_loader) = 5
    /\ SourceLength(imagenet_loader) = 12
    /\ zp_pos = 5

-----------------------------------------------------------------------------
(* Claims on the tie-break *)

\* h is a hundredth nearest to x thousandths
IsRounded(x, h) ==
    /\ 2 * (x - 10 * h) <= 10
    /\ 2 * (10 * h - x) <= 10

\* h is the one hundredth nearest to x thousandths
IsStrictlyRounded(x, h) ==
    /\ 2 * (x - 10 * h) < 10
    /\ 2 * (10 * h - x) < 10

\* C4: for every row, break_ties returns -1 if the three entries are not
\* pairwise distinct or all three round (2 decimals) to one value, and
\* otherwise the index of the largest entry; [0.5, 0.5, 0.0] and
\* [0.34, 0.33, 0.33] give -1, [0.7, 0.2, 0.1] gives 0.  An entry written
\* half-way between two hundredths may round to either: the float that
\* stands for it lies on one side or the other.
C4_BreakTies ==
    tb_pc = "done" =>
        /\ Len(choices) = Len(probas)
        /\ \A r \in DOMAIN probas :
              LET p == probas[r]
                  distinct == p[1] # p[2] /\ p[1] # p[3] /\ p[2] # p[3]
                  near == {p[1] \div 10, p[1] \div 10 + 1}
                  collapse == \E h \in near :
                                 \A i \in 1..3 : IsStrictlyRounded(p[i], h)
                  may_collapse == \E h \in near :
                                     \A i \in 1..3 : IsRounded(p[i], h)
              IN /\ (~distinct \/ collapse) => choices[r] = -1
                 /\ (distinct /\ ~may_collapse) => choices[r] # -1
                 /\ choices[r] # -1 =>
                        /\ choices[r] \in 0..2
                        /\ \A i \in 1..3 : p[i] <= p[choices[r] + 1]
                 /\ p = <<500, 500, 0>> => choices[r] = -1
                 /\ p = <<340, 330, 330>> => choices[r] = -1
                 /\ p = <<700, 200, 100>> => choices[r] = 0

\* C4 witness: a row of three distinct entries that all round to 0.33 got -1
C4_Witness ==
    /\ tb_pc = "done"
    /\ \E r \in DOMAIN probas :
          /\ probas[r] = <<330, 334, 332>>
          /\ choices[r] = -1

-----------------------------------------------------------------------------
(* Claims on the combined loss *)

\* the combined loss l (in units of 1/AlphaDen) is the loss value x
EqualsLoss(l, x) ==
    /\ l.k = x.k
    /\ x.k = "fin" => l.v = AlphaDen * x.v

\* C5 as stated: at alpha = 0 the combined loss is the classification loss
\* whatever the similarity loss, at alpha = 1 it is the similarity loss
\* whatever the classification loss.
C5_Original ==
    st_pc = "done" =>
        /\ alpha = 0 => EqualsLoss(loss, classification_loss)
        /\ alpha = AlphaDen => EqualsLoss(loss, similarity_loss)

\* C5 amended: at alpha = 0 the combined loss is the similarity loss, at
\* alpha = 1 it is the classification loss, in each case when the loss that
\* is weighted by zero is finite; when that loss is not finite the combined
\* loss is NaN.
C5_AlphaEndpoints ==
    st_pc = "done" =>
        /\ (alpha = 0 /\ classification_loss.k = "fin") =>
               EqualsLoss(loss, similarity_loss)
        /\ (alpha = AlphaDen /\ similarity_loss.k = "fin") =>
               EqualsLoss(loss, classification_loss)
        /\ (alpha = 0 /\ classification_loss.k # "fin") => loss.k = "nan"
        /\ (alpha = AlphaDen /\ similarity_loss.k # "fin") => loss.k = "nan"

\* C5 witness: a step at alpha = 0 with two different finite losses
C5_Witness ==
    /\ st_pc = "done"
    /\ alpha = 0
    /\ similarity_loss = Fin(2)
    /\ classification_loss = Fin(3)
    /\ loss = Fin(2 * AlphaDen)

-----------------------------------------------------------------------------
(* Claims on run: configuration errors, phases, stopping of the fit         *)

PostFit == pc \in {"test", "predict", "export", "returned", "means", "saved"}

\* some validation check of the fit saw a non-finite val_loss
Diverged == \E i \in DOMAIN val_history : val_history[i].k # "fin"

PhaseOrder == <<"Fitting", "Evaluating", "Predicting", "Done">>

\* C6 as stated: a fold whose validation loss became non-finite during
\* fitting has no entry in cv_results.
C6_Original ==
    Diverged => fold_key(k) \notin DOMAIN cv_results

\* what __main__ can raise after run has returned
MainErrors ==
    {"IndexError", "KeyError: test_acc", "KeyError: test_loss",
     "KeyError: transform"}

\* C6 amended: a non-finite validation loss only ends the fit (at that check
\* once min_epochs is met, run raises nothing); the fold is then evaluated
\* and predicted like any other and its entry is stored in cv_results.
C6_DivergedFoldKept ==
    /\ Diverged => error \in {"none"} \cup MainErrors
    /\ (pc = "fit" /\ epoch >= 1 /\ epoch >= min_epochs) =>
           val_history[epoch].k = "fin"
    /\ (Diverged /\ (pc \in {"returned", "means", "saved"} \/ error \in MainErrors)) =>
           /\ fold_key(k) \in DOMAIN cv_results
           /\ ooo_choices = predictions
           /\ Len(predictions) >= 1
           /\ phases = PhaseOrder

\* C6 witness: run returned with the entry of a fold whose val_loss was NaN
C6_Witness ==
    /\ pc = "returned"
    /\ \E i \in DOMAIN val_history : val_history[i] = NaN
    /\ DOMAIN cv_results = {"fold_01"}

\* C7 as stated: run does not raise the feature-store error for a value
\* --features_type accepts ("hdf5", the default, and "pt"), and for every
\* other value it never enters the fold loop.
C7_Original ==
    /\ error = "features_type" => features_type \notin FeaturesTypeChoices
    /\ (pc # "start" /\ features_type \notin FeaturesTypeChoices) => k = 0

\* C8 as stated: no name --optim accepts (Adam, AdamW, SGD) makes
\* configure_optimizers raise, each of them yields an optimizer once the fit
\* is set up, and the error of another name is raised before the fit of a
\* fold is entered, not in it.
C8_Original ==
    /\ op_error = "ValueError" => op_optim \notin OptimChoices
    /\ (op_pc = "training" /\ op_optim \in OptimChoices) =>
           optimizer.class = op_optim
    /\ op_pc = "fit" => configure_optimizers(op_optim) # "ValueError"

\* C9: the phases of the processed fold start in the order Fitting,
\* Evaluating, Predicting, Done, none skipped or repeated; a phase starts
\* only when the one before it is over (while the fit runs no later phase
\* has started), and a run that returns has gone through all four.
C9_PhaseOrder ==
    /\ Len(phases) <= Len(PhaseOrder)
    /\ \A i \in DOMAIN phases : phases[i] = PhaseOrder[i]
    /\ pc = "fit" => phases = <<"Fitting">>
    /\ pc = "test" => phases = <<"Fitting">>
    /\ pc = "predict" => phases = <<"Fitting", "Evaluating">>
    /\ pc = "export" => phases = <<"Fitting", "Evaluating", "Predicting">>
    /\ pc \in {"returned", "means", "saved"} => phases = PhaseOrder

\* C9 witness: a run that returned after at least two epochs of fitting
C9_Witness ==
    /\ pc = "returned"
    /\ epoch >= 2
    /\ phases = PhaseOrder

\* best score and count of checks without improvement after the first i
\* validation checks of history h (best -1: no finite check yet); a
\* non-finite check changes neither
RECURSIVE Tracked(_, _)
Tracked(h, i) ==
    IF i = 0 THEN [best |-> -1, stale |-> 0]
    ELSE LET before == Tracked(h, i - 1)
         IN IF h[i].k # "fin" THEN before
            ELSE IF before.best = -1 \/ h[i].v + MinDelta < before.best
            THEN [best |-> h[i].v, stale |-> 0]
            ELSE [best |-> before.best, stale |-> before.stale + 1]

\* check i signals a stop: val_loss is non-finite, or it is the pat-th (or
\* later) check in a row that did not improve on the best by more than
\* min_delta
SignalAt(h, i, pat) ==
    \/ h[i].k # "fin"
    \/ Tracked(h, i).stale >= pat

SignalUpTo(h, i, pat) == \E j \in 1..i : SignalAt(h, j, pat)

\* C10 as stated: the fit stops exactly when the min_epochs floor is reached
\* and (max_epochs is reached, or patience is exhausted, or val_loss is
\* non-finite); never before min_epochs epochs, never after max_epochs.
C10_Original ==
    LET pat == patience
    IN /\ epoch <= max_epochs
       /\ PostFit => epoch >= min_epochs
       /\ PostFit => (epoch >= max_epochs \/ SignalUpTo(val_history, epoch, pat))
       /\ (pc = "fit" /\ epoch >= 1 /\ epoch >= min_epochs) =>
              (epoch < max_epochs /\ ~SignalAt(val_history, epoch, pat))

\* C10 amended: the fit stops when max_epochs is reached, whether or not
\* min_epochs is (so it may stop before min_epochs when max_epochs is
\* smaller), or when the min_epochs floor is reached and early stopping has
\* signalled (patience exhausted or val_loss non-finite): at the check that
\* signals if the floor is met then, else depending on the Lightning build
\* at the floor (the signal is kept) or at the next signal (it is reset).
\* It never runs more than max_epochs epochs and never fewer than the
\* smaller of min_epochs and max_epochs.
C10_FitStops ==
    LET pat == patience
        h == val_history
    IN /\ epoch <= max_epochs
       /\ PostFit => epoch >= Min(min_epochs, max_epochs)
       /\ PostFit => \/ epoch >= max_epochs
                     \/ epoch >= min_epochs /\ SignalUpTo(h, epoch, pat)
       /\ (PostFit /\ ~stop_latches /\ epoch < max_epochs) => SignalAt(h, epoch, pat)
       /\ (pc = "fit" /\ epoch >= 1) =>
              /\ epoch < max_epochs
              /\ ~(epoch >= min_epochs /\ SignalAt(h, epoch, pat))
       /\ (pc = "fit" /\ stop_latches /\ epoch >= min_epochs) =>
              ~SignalUpTo(h, epoch, pat)

\* C10 witness: the fit was stopped by patience before max_epochs, after an
\* earlier improvement
C10_Witness ==
    /\ pc = "test"
    /\ epoch < max_epochs
    /\ epoch >= min_epochs
    /\ \A i \in DOMAIN val_history : val_history[i].k = "fin"
    /\ early_stopping.wait_count >= patience
    /\ early_stopping.best_score # val_history[1]

-----------------------------------------------------------------------------
(* Claims on the fold loop and the export *)

\* C11: the fold loop of run processes exactly one fold, the first of the
\* split: no second fold is ever entered, and once the loop is left
\* cv_results has exactly one entry, keyed fold_01, and ooo_choices holds
\* the predictions of that fold only.
C11_SingleFold ==
    /\ k <= 1
    /\ pc = "loop" => k = 0
    /\ DOMAIN cv_results \subseteq {"fold_01"}
    /\ pc \in {"loop", "fold", "fit", "test", "predict"} => ooo_choices = <<>>
    /\ pc \in {"export", "returned", "means", "saved"} =>
           /\ k = 1
           /\ DOMAIN cv_results = {"fold_01"}
           /\ cv_results["fold_01"] = val_performance
           /\ Len(predictions) >= 1
    /\ pc = "export" => ooo_choices = <<predictions>>
    /\ pc \in {"returned", "means", "saved"} => ooo_choices = predictions

\* C11 witness: run returned to a direct caller with the one entry of fold 1
C11_Witness ==
    /\ pc = "returned"
    /\ entry = "call"
    /\ k = 1
    /\ DOMAIN cv_results = {"fold_01"}
    /\ ooo_choices = predictions
    /\ Len(predictions) = 3

\* C12: the transformation run returns holds 'weights' always and 'bias'
\* exactly when use_bias is set, and so does the saved archive; saving never
\* asks for a key that was not exported.
C12_ExportKeys ==
    /\ error # "KeyError: transform"
    /\ pc \in {"returned", "means", "saved"} =>
           /\ "weights" \in transformation
           /\ "bias" \in transformation <=> use_bias
           /\ transformation \subseteq {"weights", "bias"}
    /\ pc = "saved" =>
           /\ "weights" \in archive
           /\ "bias" \in archive <=> use_bias
           /\ archive \subseteq {"weights", "bias"}
    /\ pc # "saved" => archive = {}

\* C12 witness: the archive was saved with the bias
C12_Witness ==
    /\ pc = "saved"
    /\ cv_results["fold_01"] = <<{"test_acc", "test_loss"}>>
    /\ use_bias
    /\ transformation = {"weights", "bias"}
    /\ archive = {"weights", "bias"}

-----------------------------------------------------------------------------
(* Claims on predictions and accuracy *)

\* C13: convert_predictions maps the index of the closest pair to the
\* member outside it: pair 0 (anchor, positive) to 2 (negative), pair 1
\* (anchor, negative) to 1 (positive), pair 2 (positive, negative) to 0
\* (anchor); every output is in {0, 1, 2} and not a member of the pair.
C13_ConvertPredictions ==
    /\ convert_predictions(0) = Negative
    /\ convert_predictions(1) = Positive
    /\ convert_predictions(2) = Anchor
    /\ pr_pc = "done" =>
           \A r \in DOMAIN sim_predictions :
               /\ sim_predictions[r] \in {0, 1, 2}
               /\ ooo_predictions[r] \in {Anchor, Positive, Negative}
               /\ ooo_predictions[r] \notin pair_members(sim_predictions[r])
               /\ pair_members(sim_predictions[r]) \cup {ooo_predictions[r]}
                      = {Anchor, Positive, Negative}

\* C13 witness: a batch whose closest pairs are pair 0 and pair 2
C13_Witness ==
    /\ pr_pc = "done"
    /\ sim_predictions = <<0, 2>>
    /\ ooo_predictions = <<2, 0>>

\* number of rows of s that hold x
CountOf(s, x) == Cardinality({r \in DOMAIN s : s[r] = x})

\* C14: the choice accuracy of a batch is the number of rows whose choice is
\* 0 over the number of rows, rows with choice 1, 2 or the sentinel being
\* misses; with batching off accuracy_ returns the 0/1 indicator per row.
C14_ChoiceAccuracy ==
    tb_pc = "done" =>
        /\ Len(choices) = Len(probas)
        /\ \A r \in DOMAIN choices : choices[r] \in {0, 1, 2, Sentinel}
        /\ batching =>
               /\ acc.kind = "mean"
               /\ acc.num = CountOf(choices, 0)
               /\ acc.den = Len(probas)
               /\ acc.num + CountOf(choices, 1) + CountOf(choices, 2)
                      + CountOf(choices, Sentinel) = acc.den
        /\ ~batching =>
               /\ acc.kind = "list"
               /\ Len(acc.list) = Len(probas)
               /\ \A r \in DOMAIN acc.list :
                      acc.list[r] = IF choices[r] = 0 THEN 1 ELSE 0

\* C14 witness: a batch of a hit, a sentinel row whose arg-max is 0 and a
\* row of choice 1 has accuracy 1/3
C14_Witness ==
    /\ tb_pc = "done"
    /\ batching
    /\ choices = <<0, Sentinel, 1>>
    /\ ArgMax(probas[2]) = 0
    /\ acc.num = 1
    /\ acc.den = 3

\* C17 as stated: the choice predict_step records for a row whose PMF has
\* non-distinct entries is the sentinel, not an arg-max index.
C17_Original ==
    pr_pc = "done" =>
        \A r \in DOMAIN pr_probas :
            UniqueCount(pr_probas[r]) # TripletSize =>
                ooo_predictions[r] = Sentinel

-----------------------------------------------------------------------------
(* Claims on the passes over the paired streams *)

\* the positions a sequence of batches holds
BatchItems(b) == {b[i] : i \in DOMAIN b}

\* C15: every pass over a paired stream, the first and each later one in
\* the fit and the test pass after it, delivers a full pairing of min(m, n)
\* pairs, the i-th pair holding the i-th batch of a new pass over each
\* source; a stream that was iterated to its end is not empty afterwards.
C15_Restartable ==
    LET m == SourceLength(ps_things)
        n == SourceLength(ps_imagenet)
    IN ps_count >= 1 =>
        /\ Len(ps_delivered) = Min(m, n)
        /\ Len(ps_delivered) >= 1
        /\ ps_count >= 2 => Len(ps_previous) = Len(ps_delivered)
        /\ \A i \in DOMAIN ps_delivered :
              /\ Len(ps_delivered[i][1]) =
                     Min(ps_things.batch_size,
                         ps_things.size - (i - 1) * ps_things.batch_size)
              /\ Len(ps_delivered[i][2]) =
                     Min(ps_imagenet.batch_size,
                         ps_imagenet.size - (i - 1) * ps_imagenet.batch_size)
              /\ BatchItems(ps_delivered[i][1]) \subseteq 1..ps_things.size
              /\ BatchItems(ps_delivered[i][2]) \subseteq 1..ps_imagenet.size
        /\ \A i, j \in DOMAIN ps_delivered :
              i # j => /\ BatchItems(ps_delivered[i][1])
                              \cap BatchItems(ps_delivered[j][1]) = {}
                       /\ BatchItems(ps_delivered[i][2])
                              \cap BatchItems(ps_delivered[j][2]) = {}

\* C15 witness: the test pass over val_batches, after the validation passes
\* of two epochs of the fit, delivers two pairs
C15_Witness ==
    /\ ps_pc = "tested"
    /\ ps_kind = "val"
    /\ ps_count = 3
    /\ Len(ps_previous) = 2
    /\ Len(ps_delivered) = 2

\* C16 as stated: both sources of val_batches are built unshuffled, both
\* sources of train_batches shuffled, and two passes over val_batches deliver
\* the same batches in the same order.
C16_Original ==
    ps_count >= 2 =>
        /\ ps_kind = "val" => (~ps_things.shuffle /\ ~ps_imagenet.shuffle)
        /\ ps_kind = "train" => (ps_things.shuffle /\ ps_imagenet.shuffle)
        /\ ps_kind = "val" => ps_delivered = ps_previous

-----------------------------------------------------------------------------
(* Claims on the step and on forward *)

\* C18: every training, validation and test step computes the similarity
\* loss on the triplet batch of its pair and the classification loss on the
\* auxiliary batch, and its loss is (1 - alpha) * similarity + alpha *
\* classification; no step computes only one of the two.
C18_BothLosses ==
    st_pc = "done" =>
        /\ logged \in {"train_loss", "val_loss", "test_loss"}
        /\ computed.similarity = "things_batch"
        /\ computed.classification = "imagenet_batch"
        /\ loss = FAdd(FMul(AlphaDen - alpha, similarity_loss),
                       FMul(alpha, classification_loss))

\* C18 witness: a validation step with odd batch_idx and 0 < alpha < 1 whose
\* loss has a share of both losses
C18_Witness ==
    /\ st_pc = "done"
    /\ logged = "val_loss"
    /\ batch_idx = 1
    /\ alpha = 3
    /\ similarity_loss = Fin(1)
    /\ classification_loss = Fin(2)
    /\ loss = Fin(13)

\* C19: with the hook registered, the embeddings forward returns are the
\* hooked module's output for the triplet batch; the pass over the
\* classification batch overwrites self.activations but not the embeddings,
\* and the returned logits are those of the classification batch.
C19_ForwardCapture ==
    /\ (hooked /\ hk_pc \in {"read", "returned"}) =>
           things_embeddings = Activation(things_batch)
    /\ (hooked /\ hk_pc \in {"things_done", "read"}) =>
           activations = Activation(things_batch)
    /\ hk_pc = "returned" => imagenet_logits = Logits(imagenet_batch_images)
    /\ (hooked /\ hk_pc = "returned") =>
           /\ activations = Activation(imagenet_batch_images)
           /\ activations # things_embeddings

\* C19 witness: the second call of forward has returned; self.activations
\* holds the classification pass, the embeddings the triplet pass
C19_Witness ==
    /\ hk_pc = "returned"
    /\ hooked
    /\ calls = 2
    /\ things_embeddings = Activation(things_batch)
    /\ activations = Activation(imagenet_batch_images)

-----------------------------------------------------------------------------
(* Specifications *)

NotKfVars ==
    <<ptVars, zpVars, psVars, tbVars,
      prVars, stVars, hkVars, opVars, runVars>>
NotPtVars ==
    <<kfVars, zpVars, psVars, tbVars,
      prVars, stVars, hkVars, opVars, runVars>>
NotZpVars ==
    <<kfVars, ptVars, psVars, tbVars,
      prVars, stVars, hkVars, opVars, runVars>>
NotPsVars ==
    <<kfVars, ptVars, zpVars, tbVars,
      prVars, stVars, hkVars, opVars, runVars>>
NotTbVars ==
    <<kfVars, ptVars, zpVars, psVars,
      prVars, stVars, hkVars, opVars, runVars>>
NotPrVars ==
    <<kfVars, ptVars, zpVars, psVars,
      tbVars, stVars, hkVars, opVars, runVars>>
NotStVars ==
    <<kfVars, ptVars, zpVars, psVars,
      tbVars, prVars, hkVars, opVars, runVars>>
NotHkVars ==
    <<kfVars, ptVars, zpVars, psVars,
      tbVars, prVars, stVars, opVars, runVars>>
NotOpVars ==
    <<kfVars, ptVars, zpVars, psVars,
      tbVars, prVars, stVars, hkVars, runVars>>
NotRunVars ==
    <<kfVars, ptVars, zpVars, psVars,
      tbVars, prVars, stVars, hkVars, opVars>>

SpecKFoldInit ==
    /\ KFoldInit
    /\ PartitionIdle
    /\ ZipIdle
    /\ PassesIdle
    /\ TiesIdle
    /\ PredictIdle
    /\ StepIdle
    /\ HookIdle
    /\ RunIdle
    /\ OptimIdle
SpecKFoldNext ==
    \/ KFoldStart /\ UNCHANGED NotKfVars
    \/ KFoldRaise /\ UNCHANGED NotKfVars
    \/ KFoldYield /\ UNCHANGED NotKfVars
    \/ KFoldStop /\ UNCHANGED NotKfVars
SpecKFold == SpecKFoldInit /\ [][SpecKFoldNext]_vars

SpecPartitionInit ==
    /\ PartitionInit
    /\ KFoldIdle
    /\ ZipIdle
    /\ PassesIdle
    /\ TiesIdle
    /\ PredictIdle
    /\ StepIdle
    /\ HookIdle
    /\ RunIdle
    /\ OptimIdle
SpecPartitionNext ==
    Partition /\ UNCHANGED NotPtVars
SpecPartition == SpecPartitionInit /\ [][SpecPartitionNext]_vars

SpecZipInit ==
    /\ ZipInit
    /\ KFoldIdle
    /\ PartitionIdle
    /\ PassesIdle
    /\ TiesIdle
    /\ PredictIdle
    /\ StepIdle
    /\ HookIdle
    /\ RunIdle
    /\ OptimIdle
SpecZipNext ==
    \/ Zip /\ UNCHANGED NotZpVars
    \/ ZipNext /\ UNCHANGED NotZpVars
    \/ ZipStop /\ UNCHANGED NotZpVars
SpecZip == SpecZipInit /\ [][SpecZipNext]_vars

SpecPassesInit ==
    /\ PassesInit
    /\ KFoldIdle
    /\ PartitionIdle
    /\ ZipIdle
    /\ TiesIdle
    /\ PredictIdle
    /\ StepIdle
    /\ HookIdle
    /\ RunIdle
    /\ OptimIdle
SpecPassesNext ==
    \/ EpochPass /\ UNCHANGED NotPsVars
    \/ TestPass /\ UNCHANGED NotPsVars
SpecPasses == SpecPassesInit /\ [][SpecPassesNext]_vars

SpecTiesInit ==
    /\ TiesInit
    /\ KFoldIdle
    /\ PartitionIdle
    /\ ZipIdle
    /\ PassesIdle
    /\ PredictIdle
    /\ StepIdle
    /\ HookIdle
    /\ RunIdle
    /\ OptimIdle
SpecTiesNext ==
    BreakTies /\ UNCHANGED NotTbVars
SpecTies == SpecTiesInit /\ [][SpecTiesNext]_vars

SpecAccuracyInit ==
    /\ AccuracyInit
    /\ KFoldIdle
    /\ PartitionIdle
    /\ ZipIdle
    /\ PassesIdle
    /\ PredictIdle
    /\ StepIdle
    /\ HookIdle
    /\ RunIdle
    /\ OptimIdle
SpecAccuracyNext ==
    Accuracy /\ UNCHANGED NotTbVars
SpecAccuracy == SpecAccuracyInit /\ [][SpecAccuracyNext]_vars

SpecPredictInit ==
    /\ PredictInit
    /\ KFoldIdle
    /\ PartitionIdle
    /\ ZipIdle
    /\ PassesIdle
    /\ TiesIdle
    /\ StepIdle
    /\ HookIdle
    /\ RunIdle
    /\ OptimIdle
SpecPredictNext ==
    PredictStep /\ UNCHANGED NotPrVars
SpecPredict == SpecPredictInit /\ [][SpecPredictNext]_vars

SpecStepInit ==
    /\ StepInit
    /\ KFoldIdle
    /\ PartitionIdle
    /\ ZipIdle
    /\ PassesIdle
    /\ TiesIdle
    /\ PredictIdle
    /\ HookIdle
    /\ RunIdle
    /\ OptimIdle
SpecStepNext ==
    Step /\ UNCHANGED NotStVars
SpecStep == SpecStepInit /\ [][SpecStepNext]_vars

SpecForwardInit ==
    /\ HookInit
    /\ KFoldIdle
    /\ PartitionIdle
    /\ ZipIdle
    /\ PassesIdle
    /\ TiesIdle
    /\ PredictIdle
    /\ StepIdle
    /\ RunIdle
    /\ OptimIdle
SpecForwardNext ==
    \/ ForwardCall /\ UNCHANGED NotHkVars
    \/ ForwardThings /\ UNCHANGED NotHkVars
    \/ ForwardRead /\ UNCHANGED NotHkVars
    \/ ForwardImagenet /\ UNCHANGED NotHkVars
SpecForward == SpecForwardInit /\ [][SpecForwardNext]_vars

SpecRunInit ==
    /\ RunInit
    /\ KFoldIdle
    /\ PartitionIdle
    /\ ZipIdle
    /\ PassesIdle
    /\ TiesIdle
    /\ PredictIdle
    /\ StepIdle
    /\ HookIdle
    /\ OptimIdle
SpecRunNext ==
    \/ ParseArgs /\ UNCHANGED NotRunVars
    \/ ParseArgsReject /\ UNCHANGED NotRunVars
    \/ CallRun /\ UNCHANGED NotRunVars
    \/ RunSetup /\ UNCHANGED NotRunVars
    \/ RunRaiseFeatures /\ UNCHANGED NotRunVars
    \/ FoldStart /\ UNCHANGED NotRunVars
    \/ FoldRaiseSplit /\ UNCHANGED NotRunVars
    \/ FitStart /\ UNCHANGED NotRunVars
    \/ FitRaiseOptim /\ UNCHANGED NotRunVars
    \/ FitEpoch /\ UNCHANGED NotRunVars
    \/ Test /\ UNCHANGED NotRunVars
    \/ Predict /\ UNCHANGED NotRunVars
    \/ Export /\ UNCHANGED NotRunVars
    \/ MainMeans /\ UNCHANGED NotRunVars
    \/ SaveArchive /\ UNCHANGED NotRunVars
SpecRun == SpecRunInit /\ [][SpecRunNext]_vars

SpecOptimInit ==
    /\ OptimInit
    /\ KFoldIdle
    /\ PartitionIdle
    /\ ZipIdle
    /\ PassesIdle
    /\ TiesIdle
    /\ PredictIdle
    /\ StepIdle
    /\ HookIdle
    /\ RunIdle
SpecOptimNext ==
    \/ FitEnter /\ UNCHANGED NotOpVars
    \/ ConfigureOptimizers /\ UNCHANGED NotOpVars
    \/ ConfigureOptimizersRaise /\ UNCHANGED NotOpVars
SpecOptim == SpecOptimInit /\ [][SpecOptimNext]_vars

=============================================================================
